---- MODULE Spec2Model ----
(***************************************************************************)
(* Model of src/config/auth.js: createUserToken (credential check and JWT  *)
(* issuance) and the passport-jwt strategy behind requireToken (JWT        *)
(* verification, then User.findById, then done).                           *)
(*                                                                         *)
(* The libraries the file calls are modelled by what they do at the call   *)
(* sites: bcrypt.compareSync re-hashes the presented password with the     *)
(* salt of the stored hash; jwt.sign adds iat/exp and a MAC over the       *)
(* payload; passport-jwt checks the MAC, then the expiry, then runs the    *)
(* verify callback; passport answers a failed strategy with 401.  Hashes   *)
(* and MACs are symbolic terms (collision free): a MAC can only be rebuilt *)
(* from the same key and the same payload.                                 *)
(***************************************************************************)
EXTENDS Integers, Sequences, FiniteSets, TLC

\* Number of times the clock may advance in one behaviour.
MaxTicks == 2

\* ---------------------------------------------------------------- values

\* JavaScript null / undefined.
Null == [js |-> "null"]
Undefined == [js |-> "undefined"]

Str(s) == [js |-> "string", s |-> s]

\* `!v` in JavaScript for the values the model uses: null, undefined and
\* the empty string are falsy; every document and non-empty string is truthy.
Falsy(v) == v \in {Null, Undefined, Str("")}

\* ---------------------------------------------------------------- bcrypt

\* bcrypt's output carries its salt; the digest is a term over (salt, data).
BcryptHash(salt, data) == [salt |-> salt, digest |-> <<salt, data>>]

\* bcrypt.compareSync(data, encrypted): re-hash data with encrypted's salt.
compareSync(data, encrypted) ==
    data.js = "string" /\ BcryptHash(encrypted.salt, data.s) = encrypted

\* ------------------------------------------------------------ user model

\* ObjectIds of the user documents (two hex digits stand for the 24).
UserIds == {10, 27}

\* JSON form of an ObjectId inside the token payload: its hex string.
ToHex(id) == <<id \div 16, id % 16>>

\* Mongoose's cast of the payload's id back to an ObjectId (-1: CastError).
CastObjectId(s) ==
    IF Len(s) = 2 /\ \A i \in 1..2 : s[i] \in 0..15
    THEN 16 * s[1] + s[2]
    ELSE 0 - 1

\* A document of the User schema: email, password (the bcrypt hash), token.
UserDoc(id, email, salt, pw) ==
    [_id |-> id, email |-> email, password |-> BcryptHash(salt, pw),
     token |-> Undefined]

\* The collection after the (out of scope) registrations: one user with an
\* ordinary password, one whose stored hash is the hash of the empty string.
InitialUsers ==
    { UserDoc(10, "a@x.com", 1, "secret1"), UserDoc(27, "b@x.com", 2, "") }

\* Passwords a client may present in req.body.credentials.password.
Presented == {Undefined, Str(""), Str("secret1"), Str("wrong")}

\* User.findById(id) on collection `coll`: the document, or null.
findById(coll, id) ==
    IF \E u \in coll : u._id = id
    THEN CHOOSE u \in coll : u._id = id
    ELSE Null

\* ------------------------------------------------------------------- jwt

\* Fallback of `process.env.JWT_SECRET || '...'`.
DefaultSecret == "some string value only your app knows"

\* A key the application does not use (a forger's).
ForgerKey == "a key the forger chose"

\* HMAC over the encoded header and payload, as a term; `bits` is 0 for the
\* bytes the signer produced and differs once a byte was altered.
HS256(key, payload) == [key |-> key, msg |-> payload, bits |-> 0]

\* jwt.sign(payload, secretOrPrivateKey, {expiresIn}) at time `clock`.
JwtSign(payload, key, expiresIn, clock) ==
    LET p == [id |-> ToHex(payload.id), iat |-> clock, exp |-> clock + expiresIn]
    IN  [payload |-> p, sig |-> HS256(key, p)]

NoToken == [payload |-> [id |-> <<>>, iat |-> 0, exp |-> 0], sig |-> Null]

\* ---------------------------------------------------------------- state

VARIABLES
    JWT_SECRET,   \* process.env.JWT_SECRET when the module was loaded
    users,        \* the User collection
    now,          \* the clock, in seconds
    ticks,        \* how often the clock advanced
    login,        \* the last createUserToken call: its arguments and result
    request,      \* the last request through requireToken
    op            \* the operation the last step performed

vars == <<JWT_SECRET, users, now, ticks, login, request, op>>

\* const secret = process.env.JWT_SECRET || 'some string value only your app knows'
secret == IF Falsy(JWT_SECRET) THEN DefaultSecret ELSE JWT_SECRET.s

\* Mutant of secretOrKey: the verifier reads the environment only.
secretOrKeyEnvOnly == IF Falsy(JWT_SECRET) THEN "" ELSE JWT_SECRET.s

\* opts.secretOrKey
secretOrKey == secret

\* { expiresIn: 36000 }
ExpiresIn == 36000

\* err.statusCode = 422
StatusUnprocessable == 422

\* ------------------------------------------------------- createUserToken

\* The thrown Error of createUserToken.
CredentialsError ==
    [message |-> "The provided username or password is incorrect",
     statusCode |-> StatusUnprocessable]

NoError == [message |-> "", statusCode |-> 0]

\* Mutant of createUserToken: an unknown email gets an error of its own.
createUserTokenNotFound(password, user, clock) ==
    LET reached == ~Falsy(user) /\ ~Falsy(password)
    IN  IF Falsy(user)
        THEN [kind |-> "throw",
              err |-> [message |-> "No user with that email", statusCode |-> 404],
              token |-> NoToken, compared |-> reached]
        ELSE IF Falsy(password) \/ ~compareSync(password, user.password)
        THEN [kind |-> "throw", err |-> CredentialsError, token |-> NoToken,
              compared |-> reached]
        ELSE [kind |-> "return", err |-> NoError,
              token |-> JwtSign([id |-> user._id], secret, ExpiresIn, clock),
              compared |-> reached]

\* Mutant of createUserToken: the password's truthiness is not tested.
createUserTokenNoEmptyCheck(password, user, clock) ==
    LET reached == ~Falsy(user)
        reject  == \/ Falsy(user)
                   \/ ~compareSync(password, user.password)
    IN  IF reject
        THEN [kind |-> "throw", err |-> CredentialsError, token |-> NoToken,
              compared |-> reached]
        ELSE [kind |-> "return", err |-> NoError,
              token |-> JwtSign([id |-> user._id], secret, ExpiresIn, clock),
              compared |-> reached]

\* createUserToken(req, user) called at time `clock`, with
\* password = req.body.credentials.password.  `compared` records whether the
\* short-circuit evaluation of the condition reached bcrypt.compareSync.
createUserToken(password, user, clock) ==
    LET reached == ~Falsy(user) /\ ~Falsy(password)
        reject  == \/ Falsy(user)
                   \/ Falsy(password)
                   \/ ~compareSync(password, user.password)
    IN  IF reject
        THEN [kind |-> "throw", err |-> CredentialsError, token |-> NoToken,
              compared |-> reached]
        ELSE [kind |-> "return", err |-> NoError,
              token |-> JwtSign([id |-> user._id], secret, ExpiresIn, clock),
              compared |-> reached]

NoLogin ==
    [password |-> Undefined, user |-> Null, at |-> 0,
     result |-> [kind |-> "none", err |-> NoError, token |-> NoToken,
                 compared |-> FALSE]]

\* Mutant of IssueToken: the issued token is saved in the user's token field.
IssueTokenSavingToken ==
    \E user \in users \cup {Null}, password \in Presented :
        LET r == createUserToken(password, user, now)
        IN  /\ login' = [password |-> password, user |-> user, at |-> now,
                         result |-> r]
            /\ users' = IF r.kind = "return"
                        THEN (users \ {user}) \cup {[user EXCEPT !.token = Str(r.token)]}
                        ELSE users
            /\ op' = "IssueToken"
            /\ UNCHANGED <<JWT_SECRET, now, ticks, request>>

\* A sign-in: the route's lookup found `user` (null for an unknown email) and
\* calls createUserToken with the presented password.
IssueToken ==
    \E user \in users \cup {Null}, password \in Presented :
        LET r == createUserToken(password, user, now)
        IN  /\ login' = [password |-> password, user |-> user, at |-> now,
                         result |-> r]
            /\ op' = "IssueToken"
            /\ UNCHANGED <<JWT_SECRET, users, now, ticks, request>>

\* ---------------------------------------------- passport-jwt / passport

\* res.statusCode of passport.authenticate when every strategy failed.
StatusUnauthorized == 401

\* Mutant of JwtVerify: ignoreExpiration.
JwtVerifyIgnoreExpiration(token, key, clock) ==
    IF token.sig # HS256(key, token.payload) THEN "JsonWebTokenError"
    ELSE "ok"

\* Mutant of JwtVerify: the payload is decoded, the signature not checked.
JwtDecodeOnly(token, key, clock) ==
    IF clock >= token.payload.exp THEN "TokenExpiredError"
    ELSE "ok"

\* passport-jwt's JwtVerifier(token, secretOrKey, options) at time `clock`
\* (jsonwebtoken's verify): the signature first, then the expiry.
JwtVerify(token, key, clock) ==
    IF token.sig # HS256(key, token.payload) THEN "JsonWebTokenError"
    ELSE IF clock >= token.payload.exp THEN "TokenExpiredError"
    ELSE "ok"

\* What a holder of `token` who does not know the secret can send instead:
\* one altered signature byte, the payload's id or expiry rewritten under the
\* old signature, and the payload re-signed with another key.
Tamperings(token) ==
    {[token EXCEPT !.sig.bits = 1]}
    \cup {[token EXCEPT !.payload.id = ToHex(i)] : i \in UserIds \ {CastObjectId(token.payload.id)}}
    \cup {[token EXCEPT !.payload.exp = @ + ExpiresIn]}
    \cup {[token EXCEPT !.sig = HS256(ForgerKey, token.payload)]}

NoResponse == [status |-> 0, body |-> ""]

\* Mutant of FailResponse: the challenge is written to the body.
FailResponseWithChallenge(challenge) ==
    [status |-> StatusUnauthorized, body |-> challenge]

\* passport.authenticate('jwt', {session: false}) on strategy.fail(challenge):
\* the challenge is no string, so nothing of it reaches the response.
FailResponse(challenge) == [status |-> StatusUnauthorized, body |-> "Unauthorized"]

\* The three ways a strategy run ends in passport.authenticate: success
\* attaches req.user and calls next(), fail answers 401, error calls next(err).
Success(user) ==
    [kind |-> "success", info |-> "", response |-> NoResponse, user |-> user]
Fail(challenge) ==
    [kind |-> "fail", info |-> challenge, response |-> FailResponse(challenge),
     user |-> Null]
Error(err) ==
    [kind |-> "error", info |-> err, response |-> NoResponse, user |-> Null]

\* passport-jwt's `verified` callback, the `done` handed to the strategy.
Verified(call) ==
    IF ~Falsy(call.err) THEN Error(call.err.s)
    ELSE IF Falsy(call.user) THEN Fail("")
    ELSE Success(call.user)

\* Mutant of StrategyThen: the payload is passed on instead of the document.
StrategyThenPayload(jwt_payload, user) == [err |-> Null, user |-> jwt_payload]

\* .then((user) => done(null, user)): the arguments of the done call.
StrategyThen(jwt_payload, user) == [err |-> Null, user |-> user]

\* .catch((err) => done(err)): the arguments of the done call.
StrategyCatch(err) == [err |-> Str(err), user |-> Undefined]

NoRequest ==
    [pc |-> "none", token |-> NoToken, subject |-> 0 - 1, at |-> 0,
     inStore |-> FALSE, settled |-> "none", calls |-> <<>>, outcomes |-> <<>>]

\* A request through requireToken carrying `token` (NoToken: no Authorization
\* header); `subject` is the id the token was issued for (-1 if it was not
\* issued as it stands).  A token that fails JwtVerifier ends in fail, one
\* that passes starts the strategy callback: User.findById is pending.
RequireToken(token, subject) ==
    LET v == IF token = NoToken THEN "No auth token"
             ELSE JwtVerify(token, secretOrKey, now)
        r == [NoRequest EXCEPT !.token = token, !.subject = subject, !.at = now]
    IN  /\ request' = IF v = "ok"
                      THEN [r EXCEPT !.pc = "lookup"]
                      ELSE [r EXCEPT !.pc = "done", !.outcomes = <<Fail(v)>>]
        /\ op' = "requireToken"
        /\ UNCHANGED <<JWT_SECRET, users, now, ticks, login>>

\* A request with no token, with the token of the last sign-in, or with a
\* tampering of it.
Request ==
    \/ RequireToken(NoToken, 0 - 1)
    \/ /\ login.result.kind = "return"
       /\ RequireToken(login.result.token, login.user._id)
    \/ /\ login.result.kind = "return"
       /\ \E t \in Tamperings(login.result.token) : RequireToken(t, 0 - 1)

\* User.findById(jwt_payload.id) resolves (to the document or null): the
\* .then handler calls done(null, user); when that call throws, the promise
\* it returns rejects and the .catch handler calls done(err).
LookupResolves ==
    /\ request.pc = "lookup"
    /\ CastObjectId(request.token.payload.id) >= 0
    /\ \E throws \in BOOLEAN :
        LET id    == CastObjectId(request.token.payload.id)
            user  == findById(users, id)
            first == StrategyThen(request.token.payload, user)
            calls == IF throws THEN <<first, StrategyCatch("thrown by done")>>
                     ELSE <<first>>
        IN  request' = [request EXCEPT
                          !.pc = "done",
                          !.settled = "resolved",
                          !.inStore = (\E u \in users : u._id = id),
                          !.calls = calls,
                          !.outcomes = [i \in 1..Len(calls) |-> Verified(calls[i])]]
    /\ op' = "LookupResolves"
    /\ UNCHANGED <<JWT_SECRET, users, now, ticks, login>>

\* User.findById rejects (the database fails): the .then handler is skipped
\* and the .catch handler calls done(err).
LookupRejects ==
    /\ request.pc = "lookup"
    /\ LET calls == <<StrategyCatch("lookup failed")>>
       IN  request' = [request EXCEPT
                          !.pc = "done",
                          !.settled = "rejected",
                          !.calls = calls,
                          !.outcomes = [i \in 1..Len(calls) |-> Verified(calls[i])]]
    /\ op' = "LookupRejects"
    /\ UNCHANGED <<JWT_SECRET, users, now, ticks, login>>

\* ----------------------------------------------------------- environment

\* A user document is deleted (by code outside this module).
RemoveUser ==
    \E u \in users :
        /\ users' = users \ {u}
        /\ op' = "RemoveUser"
        /\ UNCHANGED <<JWT_SECRET, now, ticks, login, request>>

\* The clock advances: by a second, or to one second before a full expiresIn.
Steps == {1, ExpiresIn - 1}

Tick ==
    /\ ticks < MaxTicks
    /\ \E d \in Steps : now' = now + d
    /\ ticks' = ticks + 1
    /\ op' = "Tick"
    /\ UNCHANGED <<JWT_SECRET, users, login, request>>

\* ---------------------------------------------------------- specification

Init ==
    /\ JWT_SECRET \in {Undefined, Str(""), Str("a secret from the environment")}
    /\ users = InitialUsers
    /\ now = 0
    /\ ticks = 0
    /\ login = NoLogin
    /\ request = NoRequest
    /\ op = "init"

Next ==
    \/ IssueToken
    \/ Request
    \/ LookupResolves
    \/ LookupRejects
    \/ RemoveUser
    \/ Tick

Spec == Init /\ [][Next]_vars

\* ------------------------------------------------------------ properties

LoginDone == login.result.kind # "none"
Returned == login.result.kind = "return"
Threw == login.result.kind = "throw"

\* The presented password is a string whose hash is the user's stored hash.
Matches == ~Falsy(login.user) /\ compareSync(login.password, login.user.password)

\* The request's token is the one createUserToken returned, as it stands.
Genuine == request.subject >= 0

Expired == request.at >= request.token.payload.exp
BadSignature == request.token.sig # HS256(secret, request.token.payload)

\* req.user after the request: the user of a success outcome, if any.
Attached == {request.outcomes[i].user : i \in 1..Len(request.outcomes)} \ {Null}

C2_SameFailure ==
    (LoginDone /\ (Falsy(login.user) \/ ~Matches))
        => /\ Threw
           /\ login.result.err = CredentialsError
           /\ login.result.err.statusCode = 422
           /\ login.result.token = NoToken

C2_Witness ==
    /\ Threw
    /\ ~Falsy(login.user)
    /\ login.password = Str("wrong")

\* C3 as stated: every issued token expires 3600 seconds after it was issued.
C3_OneHour ==
    Returned =>
        login.result.token.payload.exp = login.result.token.payload.iat + 3600

\* C4: a token verified at or after its expiry fails with 401, the store
\* lookup is not started and no user is attached, whatever the store holds.
C4_Expiry ==
    (request.pc # "none" /\ request.token # NoToken /\ Expired)
        => /\ request.pc = "done"
           /\ request.settled = "none"
           /\ request.calls = <<>>
           /\ Len(request.outcomes) = 1
           /\ request.outcomes[1].kind = "fail"
           /\ Attached = {}

C4_Witness ==
    /\ Genuine /\ Expired /\ request.pc = "done"
    /\ request.at = request.token.payload.exp
    /\ \E u \in users : u._id = request.subject

\* C5: a validly signed, unexpired token whose user is not in the store at
\* the lookup ends in fail (401, no challenge) and attaches no user.
C5_RemovedSubject ==
    (request.settled = "resolved" /\ ~request.inStore)
        => /\ request.outcomes[1] = Fail("")
           /\ request.outcomes[1].response.status = 401
           /\ Attached = {}

C5_Witness ==
    /\ Genuine /\ request.settled = "resolved" /\ ~request.inStore
    /\ Len(request.outcomes) = 1

\* C6 as stated: a failed sign-in and a failed verification reach the caller
\* with the same status.
C6_Original ==
    \A i \in 1..Len(request.outcomes) :
        (Threw /\ request.outcomes[i].kind = "fail")
            => login.result.err.statusCode = request.outcomes[i].response.status

\* C6 (amended): every failed verification, whatever its cause, is answered
\* 401 "Unauthorized"; a failed sign-in carries status 422 and its message.
C6_FailureSurface ==
    /\ \A i \in 1..Len(request.outcomes) :
          request.outcomes[i].kind = "fail"
              => request.outcomes[i].response =
                    [status |-> 401, body |-> "Unauthorized"]
    /\ Threw => login.result.err =
                    [message |-> "The provided username or password is incorrect",
                     statusCode |-> 422]

C6_Witness ==
    /\ Threw
    /\ request.pc = "done" /\ request.settled = "none"
    /\ request.outcomes[1].info = "TokenExpiredError"

\* C7: a token whose signature is not the one the secret gives its payload
\* fails on every verification, starts no lookup and attaches no user.
C7_Tamper ==
    (request.pc # "none" /\ request.token # NoToken /\ BadSignature)
        => /\ request.pc = "done"
           /\ request.calls = <<>>
           /\ request.outcomes = <<Fail("JsonWebTokenError")>>
           /\ Attached = {}

C7_Witness ==
    /\ request.pc = "done" /\ request.token # NoToken /\ BadSignature
    /\ request.token.sig.bits = 1
    /\ request.at < request.token.payload.exp
    /\ \E u \in users : u._id = CastObjectId(request.token.payload.id)

\* C8: no step of createUserToken or of the strategy changes the User
\* collection or the secret.
C8_Stateless ==
    [][op' \in {"IssueToken", "requireToken", "LookupResolves", "LookupRejects"}
          => (users' = users /\ JWT_SECRET' = JWT_SECRET)]_vars

C8_Witness ==
    /\ op = "LookupResolves"
    /\ Returned
    /\ Attached # {}
    /\ users = InitialUsers

\* C9: an empty or missing password throws the same error (422) as a wrong
\* one, for every user, without reaching bcrypt.compareSync, and no token.
C9_EmptyPassword ==
    (LoginDone /\ Falsy(login.password))
        => /\ Threw
           /\ login.result.err = CredentialsError
           /\ login.result.err.statusCode = 422
           /\ ~login.result.compared
           /\ login.result.token = NoToken

C9_Witness ==
    /\ LoginDone
    /\ login.password = Str("")
    /\ ~Falsy(login.user)
    /\ login.user.password = BcryptHash(login.user.password.salt, "")

\* C10 as stated: once the lookup settled, done was called exactly once.
C10_DoneOnce ==
    request.settled # "none" => Len(request.calls) = 1

====
